---- MODULE Spec2Model ----
(***************************************************************************)
(* Model of the detection engine of src/rf_ids.py (RFIntrusionDetector):   *)
(* the baseline store, the proximity detector, the spectral scoring step   *)
(* and the alert throttle, as driven by scan_for_intrusions, with the      *)
(* retry loop of monitor_frequency and the main loop of run.               *)
(*                                                                         *)
(* Powers are dB values on an integer grid, times are whole seconds.       *)
(* An optional value (Python None / False) is a sequence of length 0 or 1. *)
(***************************************************************************)
EXTENDS Integers, Sequences, FiniteSets, TLC

\* ------------------------------------------------------------------ bounds
NumBins == 3            \* bins of one captured spectrum (fft_size)
MaxTime == 360          \* the clock stops advancing after this many seconds
BaselineSamples == 2    \* config['baseline_samples']

\* ------------------------------------------------------- program constants
threshold == 15                       \* config['threshold']
bluetooth_distance_threshold == 10    \* feet
cellular_distance_threshold == 15     \* feet
extended_range_factor == -6           \* dB for double the distance
SPECTRAL_INTERVAL == 300              \* send_alert: seconds
PROXIMITY_INTERVAL == 60              \* send_proximity_alert: seconds
INITIAL_ALERT_AGE == 3600             \* __init__: now - 1 hour
max_retries == 3                      \* monitor_frequency
RETRY_SLEEP == 2                      \* monitor_frequency: seconds
SAFE_FREQUENCY == 100                 \* MHz, "FM radio is usually safe"
max_consecutive_errors == 5           \* run
ERROR_SLEEP == 5                      \* run: seconds after a failed cycle

\* ------------------------------------------------------------ input sets
Frequencies == <<433, 850>>           \* config['frequencies'] (MHz)
NoiseFloor == 0 - 60                  \* dB, the level of a quiet bin
ProximityLevels == {-46, -40, -38}    \* around the calibrated references
AnomalyLevels == {-45, -44}           \* NoiseFloor + threshold, and above
Deltas == {30, 270}                   \* seconds between two scans
ScanPaces == {120, 240}               \* the same, for the detection runs
LoopPaces == {90}                     \* the same, for the main loop
Keys == {"none", "q"}                 \* what getch() returns to the main loop

Bins == 1..NumBins

\* a spectrum that is flat at the noise floor except for one bin
Peak(i, p) == [b \in Bins |-> IF b = i THEN p ELSE NoiseFloor]
Flat == [b \in Bins |-> NoiseFloor]

\* what the PSD estimator can hand back for one capture
Captures ==
  {Flat} \cup {Peak(1, p) : p \in ProximityLevels}
         \cup {Peak(i, p) : i \in Bins, p \in AnomalyLevels}
\* what it hands back while a baseline is being collected
BaselineCaptures == {Flat, Peak(1, -44)}

None == <<>>            \* Python None / False for an optional value
Some(x) == <<x>>

VARIABLES
  config,           \* self.config['proximity_detection'] and ['frequencies']
  baseline,         \* self.baseline: None or {'timestamp', 'data'}
  sdr_center_freq,  \* self.sdr.center_freq (MHz)
  now,              \* datetime.datetime.now() (seconds)
  last_alert_time,  \* self.last_alert_time
  alert_count,      \* self.alert_count
  early_detection,  \* DASHBOARD['early_detection']
  last_anomaly,     \* DASHBOARD['last_anomaly'] and ['last_alert_time']
  prev_attempt,     \* per alert function: its latest call (time, emitted)
  cycle,            \* what the latest scan_for_intrusions call did
  monitor,          \* monitor_frequency: the call in progress and the last one
  loop              \* run: the locals and the position of its main loop

vars == <<config, baseline, sdr_center_freq, now, last_alert_time, alert_count,
          early_detection, last_anomaly, prev_attempt, cycle, monitor, loop>>

\* ------------------------------------------------------------- helpers
RECURSIVE np_max(_)
np_max(s) ==
  IF Len(s) = 1 THEN s[1]
  ELSE LET m == np_max(Tail(s)) IN IF s[1] > m THEN s[1] ELSE m

abs(x) == IF x < 0 THEN -x ELSE x

\* frequencies + (center_freq/1e6 - sample_rate/2e6): bin k of a capture
\* taken while the hardware is tuned to `center`
BinFrequencies(center, n) == [k \in 1..n |-> center * 10 + (k - 1)]

\* capture_spectrum: a spectrum, or two empty arrays after a device error
capture_spectrum(center, psd) ==
  IF psd = None
  THEN [frequencies |-> <<>>, psd |-> <<>>]
  ELSE [frequencies |-> BinFrequencies(center, Len(psd)), psd |-> psd]

\* ------------------------------------------------- proximity detector
calibrated_ignoring_needed(cfg) ==
  /\ cfg.enabled
  /\ cfg.calibration_values # None

\* the three gates in front of the detector
calibrated(cfg) ==
  /\ cfg.enabled
  /\ ~cfg.calibration_needed
  /\ cfg.calibration_values # None

extended_reference(ref_power) == ref_power + extended_range_factor

is_early_inclusive(max_power, ref_power) ==
  max_power >= extended_reference(ref_power) /\ max_power <= ref_power

is_early(max_power, ref_power) ==
  max_power > extended_reference(ref_power) /\ max_power <= ref_power

is_breach_extended(max_power, ref_power) ==
  max_power > extended_reference(ref_power)

is_breach(max_power, ref_power) == max_power > ref_power

early_record(type, distance, max_power, ref_power, current_freq) ==
  [type |-> type, distance |-> distance * 2, power |-> max_power,
   reference |-> extended_reference(ref_power), frequency |-> current_freq,
   alert_level |-> "early"]

breach_record(type, distance, max_power, ref_power, current_freq) ==
  [type |-> type, distance |-> distance, power |-> max_power,
   reference |-> ref_power, frequency |-> current_freq,
   alert_level |-> "alert"]

NoProximity == [ret |-> None, early |-> <<>>, evaluated |-> {}]

\* check_proximity_breach: `ret` is the returned breach (None for False),
\* `early` the early_detection records it stored in DASHBOARD, in order,
\* `evaluated` the classes whose block (lines 1032-1062, 1064-1093) ran
check_proximity_breach(cfg, current_freq, current_psd) ==
  IF ~calibrated(cfg) THEN NoProximity
  ELSE
    LET cv == cfg.calibration_values[1]
        is_wireless_proxy == current_freq = cv.wireless_freq
        is_cellular_proxy == current_freq = cv.cellular_freq
        max_power == np_max(current_psd)
        w_early ==
          IF is_wireless_proxy /\ is_early(max_power, cv.wireless_power)
          THEN <<early_record("wireless", bluetooth_distance_threshold,
                              max_power, cv.wireless_power, current_freq)>>
          ELSE <<>>
        c_early ==
          IF is_cellular_proxy /\ is_early(max_power, cv.cellular_power)
          THEN <<early_record("cellular", cellular_distance_threshold,
                              max_power, cv.cellular_power, current_freq)>>
          ELSE <<>>
    IN
      IF ~(is_wireless_proxy \/ is_cellular_proxy) THEN NoProximity
      ELSE IF is_wireless_proxy /\ is_breach(max_power, cv.wireless_power)
      THEN [ret |-> Some(breach_record("wireless", bluetooth_distance_threshold,
                                       max_power, cv.wireless_power, current_freq)),
            early |-> w_early, evaluated |-> {"wireless"}]
      ELSE IF is_cellular_proxy /\ is_breach(max_power, cv.cellular_power)
      THEN [ret |-> Some(breach_record("cellular", cellular_distance_threshold,
                                       max_power, cv.cellular_power, current_freq)),
            early |-> w_early \o c_early,
            evaluated |-> {c \in {"wireless", "cellular"} :
                             \/ c = "wireless" /\ is_wireless_proxy
                             \/ c = "cellular"}]
      ELSE [ret |-> None, early |-> w_early \o c_early,
            evaluated |-> {c \in {"wireless", "cellular"} :
                             \/ c = "wireless" /\ is_wireless_proxy
                             \/ c = "cellular" /\ is_cellular_proxy}]

\* ----------------------------------------------------- baseline store
RECURSIVE SumAt(_, _)
SumAt(data, k) ==
  IF data = <<>> THEN 0 ELSE data[1][k] + SumAt(Tail(data), k)

\* np.mean(freq_data, axis=0), rounded down to the integer grid
np_mean(freq_data) ==
  [k \in 1..Len(freq_data[1]) |-> SumAt(freq_data, k) \div Len(freq_data)]

\* the capture loop of create_baseline / create_baseline_for_frequency:
\* caps[i] is the i-th capture (None when capture_spectrum failed);
\* `frequencies` is what the last capture returned
RECURSIVE collect(_, _, _, _)
collect(center, caps, freq_data, frequencies) ==
  IF caps = <<>> THEN [freq_data |-> freq_data, frequencies |-> frequencies]
  ELSE LET c == capture_spectrum(center, caps[1])
       IN collect(center, Tail(caps),
                  IF Len(c.frequencies) > 0 THEN Append(freq_data, c.psd)
                                            ELSE freq_data,
                  c.frequencies)

baseline_entry(col) ==
  [frequencies |-> col.frequencies, psd_mean |-> np_mean(col.freq_data)]

\* one baseline run: does tuning succeed, and what each capture returns
Runs ==
  [tune_ok : BOOLEAN,
   caps : [1..BaselineSamples -> BaselineCaptures \cup {None}]]

\* plot_spectrum (lines 1202-1203): plt.plot(frequencies, psd) raises when
\* the two arrays differ in length
plot_raises(frequencies, psd) == Len(frequencies) # Len(psd)

\* create_baseline: loops over config['frequencies'][i..], runs[f] being the
\* run at frequency f; st = [data, sdr, raised] accumulates baseline_data,
\* the tuned frequency, and whether plot_spectrum raised (which ends the loop)
RECURSIVE create_baseline_loop(_, _, _, _)
create_baseline_loop(freqs, i, runs, st) ==
  IF i > Len(freqs) \/ st.raised THEN st
  ELSE
    LET freq == freqs[i]
        run == runs[freq]
        col == collect(freq, run.caps, <<>>, <<>>)
    IN
      IF ~run.tune_ok THEN create_baseline_loop(freqs, i + 1, runs, st)
      ELSE IF col.freq_data = <<>>
      THEN create_baseline_loop(freqs, i + 1, runs,
                                [st EXCEPT !.sdr = freq])
      ELSE create_baseline_loop(freqs, i + 1, runs,
             [data |-> (freq :> baseline_entry(col)) @@ st.data,
              sdr |-> freq,
              raised |-> plot_raises(col.frequencies,
                                     baseline_entry(col).psd_mean)])

\* create_baseline: ok is its return value (FALSE also when it raised);
\* baseline and sdr are self.baseline and the tuned frequency after it
create_baseline(bl, freqs, runs, sdr, t) ==
  LET st == create_baseline_loop(freqs, 1, runs,
                                 [data |-> <<>>, sdr |-> sdr, raised |-> FALSE])
  IN IF st.raised
     THEN [ok |-> FALSE, raised |-> TRUE, baseline |-> bl, sdr |-> st.sdr]
     ELSE IF DOMAIN st.data = {}
     THEN [ok |-> FALSE, raised |-> FALSE, baseline |-> bl, sdr |-> st.sdr]
     ELSE [ok |-> TRUE, raised |-> FALSE,
           baseline |-> Some([timestamp |-> t, data |-> st.data]),
           sdr |-> st.sdr]

store_entry_alone(old, freq, entry) ==
  [old EXCEPT !.data = (freq :> entry)]

\* lines 757-771: the entry is put into the store, whose timestamp and
\* other entries stay
store_entry(old, freq, entry) ==
  [old EXCEPT !.data = (freq :> entry) @@ old.data]

create_baseline_for_frequency_unsaved(bl, freq, run, sdr, t) ==
  LET col == collect(freq, run.caps, <<>>, <<>>)
  IN IF ~run.tune_ok
     THEN [ok |-> FALSE, raised |-> FALSE, baseline |-> bl, sdr |-> sdr]
     ELSE IF col.freq_data = <<>>
     THEN [ok |-> FALSE, raised |-> FALSE, baseline |-> bl, sdr |-> freq]
     ELSE [ok |-> TRUE, raised |-> FALSE, baseline |-> bl, sdr |-> freq]

\* create_baseline_for_frequency on an existing or absent store; the entry
\* is in the store (line 767) before plot_spectrum (line 774) can raise
create_baseline_for_frequency(bl, freq, run, sdr, t) ==
  LET col == collect(freq, run.caps, <<>>, <<>>)
      old == IF bl = None THEN [timestamp |-> t, data |-> <<>>] ELSE bl[1]
  IN IF ~run.tune_ok
     THEN [ok |-> FALSE, raised |-> FALSE, baseline |-> bl, sdr |-> sdr]
     ELSE IF col.freq_data = <<>>
     THEN [ok |-> FALSE, raised |-> FALSE, baseline |-> bl, sdr |-> freq]
     ELSE LET entry == baseline_entry(col)
          IN [ok |-> ~plot_raises(entry.frequencies, entry.psd_mean),
              raised |-> plot_raises(entry.frequencies, entry.psd_mean),
              baseline |-> Some(store_entry(old, freq, entry)),
              sdr |-> freq]

\* ------------------------------------------------------ spectral scoring
is_anomaly_inclusive(d, t) == abs(d) >= t

\* line 1161: abs(diff[i]) > threshold
is_anomaly(d, t) == abs(d) > t

\* numpy broadcasting of current_psd - baseline_psd
broadcastable(a, b) == Len(a) = Len(b) \/ Len(a) = 1 \/ Len(b) = 1
at(a, i) == IF Len(a) = 1 THEN a[1] ELSE a[i]

\* diff[i] of diff = current_psd - baseline_psd
difference(current_psd, baseline_psd, i) ==
  at(current_psd, i) - at(baseline_psd, i)

anomaly_record(frequencies, current_psd, baseline_psd, i) ==
  [frequency |-> frequencies[i],
   baseline_power |-> baseline_psd[i],
   current_power |-> current_psd[i],
   difference |-> difference(current_psd, baseline_psd, i)]

\* the loop of lines 1160-1167, in bin order
RECURSIVE find_anomalies(_, _, _, _)
find_anomalies(frequencies, current_psd, baseline_psd, i) ==
  IF i > Len(frequencies) THEN <<>>
  ELSE (IF is_anomaly(difference(current_psd, baseline_psd, i), threshold)
        THEN <<anomaly_record(frequencies, current_psd, baseline_psd, i)>>
        ELSE <<>>)
       \o find_anomalies(frequencies, current_psd, baseline_psd, i + 1)

\* -------------------------------------------------------- alert throttle
throttled_inclusive(t, last, min_interval) == (t - last) <= min_interval

\* (now - self.last_alert_time).total_seconds() < min_interval
throttled(t, last, min_interval) == (t - last) < min_interval

alert_attempt_late(t, last, count, min_interval, notify_ok) ==
  IF throttled(t, last, min_interval)
  THEN [last |-> last, count |-> count, emitted |-> FALSE, raised |-> FALSE]
  ELSE IF notify_ok
  THEN [last |-> t, count |-> count + 1, emitted |-> TRUE, raised |-> FALSE]
  ELSE [last |-> last, count |-> count, emitted |-> TRUE, raised |-> TRUE]

\* the head of send_alert / send_proximity_alert: the throttle, then the
\* update of the shared state, then the transports; pync.notify is not
\* guarded, so its failure leaves the function as an exception
alert_attempt(t, last, count, min_interval, notify_ok) ==
  IF throttled(t, last, min_interval)
  THEN [last |-> last, count |-> count, emitted |-> FALSE, raised |-> FALSE]
  ELSE [last |-> t, count |-> count + 1, emitted |-> TRUE,
        raised |-> ~notify_ok]

send_alert(t, last, count, notify_ok) ==
  alert_attempt(t, last, count, SPECTRAL_INTERVAL, notify_ok)

send_proximity_alert(t, last, count, notify_ok) ==
  alert_attempt(t, last, count, PROXIMITY_INTERVAL, notify_ok)

\* numpy raises on shapes that do not broadcast, and baseline_psd[i] raises
\* past the end of a one-bin baseline
scoring_raises(frequencies, current_psd, baseline_psd) ==
  \/ ~broadcastable(current_psd, baseline_psd)
  \/ /\ Len(baseline_psd) = 1
     /\ \E i \in 2..Len(frequencies) :
          is_anomaly(difference(current_psd, baseline_psd, i), threshold)

\* ------------------------------------------------- scan_for_intrusions
\* what one call did; the fields are filled in along the path it took
NoCycle ==
  [freq |-> 0, step |-> "none", result |-> "none", at |-> 0,
   tuned |-> 0, sdr |-> 0, psd |-> <<>>, checked |-> FALSE,
   breach |-> None, early |-> <<>>, evaluated |-> {},
   scored |-> FALSE, anomalies |-> <<>>,
   anomaly_rows |-> <<>>, proximity_rows |-> <<>>,
   send_alert_called |-> FALSE, send_proximity_alert_called |-> FALSE,
   dispatched |-> None, dashboard_alert |-> None]

AlertKinds == {"spectral", "proximity"}

\* update_dashboard(alert=...) of lines 1145 and 1194 (lines 134-137): the
\* one alert the engine keeps, a breach (type, frequency) or the
\* anomaly_alert of lines 1184-1189, with the time it was stored
recorded_alert(la, cyc) ==
  IF cyc.dashboard_alert = None THEN la
  ELSE Some([type |-> IF cyc.breach # None THEN cyc.breach[1].type
                      ELSE "spectrum_anomaly",
             frequency |-> cyc.freq,
             at |-> cyc.at])

\* the state one scan_for_intrusions call leaves behind; cycle.sdr is the
\* frequency the hardware is tuned to when the call ends
Commit(bl, sdr, lat, ac, ed, pa, cyc) ==
  /\ baseline' = bl
  /\ last_alert_time' = lat
  /\ alert_count' = ac
  /\ early_detection' = ed
  /\ prev_attempt' = pa
  /\ cycle' = [cyc EXCEPT !.sdr = sdr]
  /\ last_anomaly' = recorded_alert(last_anomaly, cyc)

\* DASHBOARD['early_detection'] after the early records of one check
stored_early(ed, early) ==
  IF early = <<>> THEN ed ELSE Some(early[Len(early)])

early_as_breach(prox) ==
  IF prox.ret # None THEN prox.ret
  ELSE IF prox.early # <<>> THEN Some(prox.early[Len(prox.early)])
  ELSE None

\* line 1128: proximity_breach, the value check_proximity_breach returned
proximity_breach(prox) == prox.ret

never_proximity_path(breach) == FALSE

\* line 1129: if proximity_breach
proximity_path(breach) == breach # None

\* line 1136: the proximity log row
proximity_row(t, b) == <<t, b.type, b.distance, b.power, b.frequency>>

\* line 1181: one anomaly log row
anomaly_row(t, current_freq, a) == <<t, current_freq, a.frequency, a.difference>>

\* lines 1121-1198, with bl the store and sdr the tuned frequency at the
\* time of the capture
Detect(current_freq, t, bl, sdr, psd_in, notify_ok) ==
  LET cap == capture_spectrum(sdr, psd_in)
      base == [NoCycle EXCEPT !.freq = current_freq, !.at = t, !.tuned = sdr,
                              !.psd = cap.psd]
  IN
  IF Len(cap.frequencies) = 0
  THEN Commit(bl, sdr, last_alert_time, alert_count, early_detection,
              prev_attempt,
              [base EXCEPT !.step = "capture_failed", !.result = "False"])
  ELSE
    LET prox == check_proximity_breach(config, current_freq, cap.psd)
        ed == stored_early(early_detection, prox.early)
        breach == proximity_breach(prox)
        checked == [base EXCEPT !.checked = TRUE, !.breach = breach,
                                !.early = prox.early,
                                !.evaluated = prox.evaluated]
    IN
    IF proximity_path(breach)
    THEN
      LET a == send_proximity_alert(t, last_alert_time, alert_count, notify_ok)
      IN Commit(bl, sdr, a.last, a.count, ed,
                [prev_attempt EXCEPT
                   !["proximity"] = Some([at |-> t, emitted |-> a.emitted])],
                [checked EXCEPT
                   !.step = "proximity",
                   !.result = IF a.raised THEN "Raised" ELSE "True",
                   !.proximity_rows = <<proximity_row(t, breach[1])>>,
                   !.send_proximity_alert_called = TRUE,
                   !.dispatched = IF a.emitted THEN Some("proximity") ELSE None,
                   !.dashboard_alert =
                      IF a.raised THEN None ELSE Some("proximity")])
    ELSE
      LET baseline_psd == bl[1].data[current_freq].psd_mean
      IN
      IF scoring_raises(cap.frequencies, cap.psd, baseline_psd)
      THEN Commit(bl, sdr, last_alert_time, alert_count, ed, prev_attempt,
                  [checked EXCEPT !.step = "mismatch", !.result = "Raised"])
      ELSE
        LET anomalies == find_anomalies(cap.frequencies, cap.psd,
                                        baseline_psd, 1)
            scored == [checked EXCEPT !.scored = TRUE,
                                      !.anomalies = anomalies]
        IN
        IF anomalies = <<>>
        THEN Commit(bl, sdr, last_alert_time, alert_count, ed, prev_attempt,
                    [scored EXCEPT !.step = "clear", !.result = "False"])
        ELSE
          LET a == send_alert(t, last_alert_time, alert_count, notify_ok)
          IN Commit(bl, sdr, a.last, a.count, ed,
                    [prev_attempt EXCEPT
                       !["spectral"] = Some([at |-> t, emitted |-> a.emitted])],
                    [scored EXCEPT
                       !.step = "anomalies",
                       !.result = IF a.raised THEN "Raised" ELSE "True",
                       !.anomaly_rows =
                          [k \in 1..Len(anomalies) |->
                             anomaly_row(t, current_freq, anomalies[k])],
                       !.send_alert_called = TRUE,
                       !.dispatched =
                          IF a.emitted THEN Some("spectral") ELSE None,
                       !.dashboard_alert =
                          IF a.raised THEN None ELSE Some("spectrum_anomaly")])

\* lines 1105-1119: no baseline for this frequency yet
NewFrequency(current_freq, t, bl, sdr, run) ==
  LET r == create_baseline_for_frequency(bl, current_freq, run, sdr, t)
  IN Commit(r.baseline, r.sdr, last_alert_time, alert_count, early_detection,
            prev_attempt,
            [NoCycle EXCEPT !.freq = current_freq, !.at = t,
                            !.step = IF r.ok THEN "baseline_created"
                                     ELSE IF r.raised THEN "baseline_error"
                                     ELSE "baseline_failed",
                            !.result = "False"])

has_baseline(bl, current_freq) == current_freq \in DOMAIN bl[1].data

MonitoredFrequencies == {config.frequencies[i] : i \in 1..Len(config.frequencies)}
Tick(dt) == now + dt <= MaxTime /\ now' = now + dt

\* lines 1100-1119 with an empty store: create_baseline, which can raise in
\* plot_spectrum or in its unguarded pync.notify (line 720), then the scan
\* goes on with the new store
WithoutBaseline(current_freq, t, sdr, cs) ==
  \E runs \in [MonitoredFrequencies -> Runs], notify_ok \in BOOLEAN :
    LET r == create_baseline(baseline, config.frequencies, runs, sdr, t)
        base == [NoCycle EXCEPT !.freq = current_freq, !.at = t]
    IN IF r.raised
       THEN Commit(r.baseline, r.sdr, last_alert_time, alert_count,
                   early_detection, prev_attempt,
                   [base EXCEPT !.step = "baseline_error", !.result = "Raised"])
       ELSE IF ~r.ok
       THEN Commit(r.baseline, r.sdr, last_alert_time, alert_count,
                   early_detection, prev_attempt,
                   [base EXCEPT !.step = "no_baseline", !.result = "False"])
       ELSE IF ~notify_ok
       THEN Commit(r.baseline, r.sdr, last_alert_time, alert_count,
                   early_detection, prev_attempt,
                   [base EXCEPT !.step = "baseline_notify", !.result = "Raised"])
       ELSE IF ~has_baseline(r.baseline, current_freq)
       THEN \E run \in Runs :
              NewFrequency(current_freq, t, r.baseline, r.sdr, run)
       ELSE \E psd_in \in cs \cup {None} :
              Detect(current_freq, t, r.baseline, r.sdr, psd_in, notify_ok)

\* scan_for_intrusions(current_freq) at time t with the hardware tuned to
\* sdr; cs is what a capture can return
scan_for_intrusions(current_freq, t, sdr, cs) ==
  IF baseline = None THEN WithoutBaseline(current_freq, t, sdr, cs)
  ELSE IF ~has_baseline(baseline, current_freq)
  THEN \E run \in Runs : NewFrequency(current_freq, t, baseline, sdr, run)
  ELSE \E psd_in \in cs \cup {None}, notify_ok \in BOOLEAN :
         Detect(current_freq, t, baseline, sdr, psd_in, notify_ok)

\* one successful tune (line 1499) followed by scan_for_intrusions
\* (line 1531), outside the retry logic
TuneAndScan(current_freq, cs, ds) ==
  /\ \E dt \in ds : Tick(dt)
  /\ scan_for_intrusions(current_freq, now', current_freq, cs)
  /\ sdr_center_freq' = cycle'.sdr
  /\ UNCHANGED <<config, monitor, loop>>

\* cs: what a capture can return; ds: the seconds since the previous scan.
\* The store is empty (lines 1100-1103)
ScanWithoutBaseline(cs, ds) ==
  /\ baseline = None
  /\ \E current_freq \in MonitoredFrequencies :
       TuneAndScan(current_freq, cs, ds)

\* the store exists but has no entry for the frequency
ScanNewFrequency(ds) ==
  /\ baseline # None
  /\ \E current_freq \in MonitoredFrequencies :
       /\ ~has_baseline(baseline, current_freq)
       /\ TuneAndScan(current_freq, {}, ds)

\* the store has an entry for the frequency: capture and detect
ScanDetect(cs, ds) ==
  /\ baseline # None
  /\ \E current_freq \in MonitoredFrequencies :
       /\ has_baseline(baseline, current_freq)
       /\ TuneAndScan(current_freq, cs, ds)

\* no monitor_frequency call yet
NoMonitor ==
  [freq |-> 0, attempt |-> 0, resets |-> <<>>, dispatch_failed |-> FALSE,
   call |-> None]

\* run() before its main loop
\* snapshot is the list the cycle walks and visited the frequencies whose
\* monitor_frequency call has ended in it; key is what getch() returned last
NoLoop ==
  [stdscr |-> TRUE, status |-> "idle", error_count |-> 0, pending |-> <<>>,
   monitoring_successful |-> FALSE, stop |-> None, all_failed |-> FALSE,
   failed_cycles |-> 0, key |-> "none", snapshot |-> <<>>, visited |-> <<>>]

\* ------------------------------------------------------ monitor_frequency
\* line 1531 / 1532: the attempt returns what the scan returned unless the
\* tune or the scan raised
scan_returned_never(result) == FALSE

scan_returned(result) == result # "Raised"

\* line 1534: attempt < max_retries - 1, with attempt counted from 0
retry_left(attempt) == attempt < max_retries - 1

\* self.config['frequencies'].remove(frequency)
RECURSIVE remove(_, _)
remove(freqs, frequency) ==
  IF freqs = <<>> THEN <<>>
  ELSE IF freqs[1] = frequency THEN Tail(freqs)
  ELSE <<freqs[1]>> \o remove(Tail(freqs), frequency)

next_pending_live(pending, removed) ==
  IF removed /\ Len(pending) > 1 THEN Tail(Tail(pending)) ELSE Tail(pending)

\* line 1696: the for loop walks a copy, list(self.config['frequencies']),
\* so what is left of it does not depend on a removal
next_pending(pending, removed) == Tail(pending)

\* the scan of the latest attempt reported a capture error (line 1124)
capture_failed(cyc) == cyc.step = "capture_failed"

\* the unguarded pync.notify of send_alert / send_proximity_alert raised
notify_raised(cyc) == cyc.result = "Raised" /\ cyc.dispatched # None

\* what follows one attempt (lines 1531-1560), cyc being what the attempt
\* did: return the scan's result; or reset the device and go round again;
\* or, after the last attempt, remove the frequency, tune to the safe
\* frequency and return False
AfterAttempt(frequency, cyc) ==
  IF scan_returned(cyc.result)
  THEN /\ config' = config
       /\ sdr_center_freq' = cyc.sdr
       /\ monitor' = [NoMonitor EXCEPT
            !.freq = frequency,
            !.call = Some([freq |-> frequency, attempts |-> monitor.attempt + 1,
                           returned |-> cyc.result, removed |-> FALSE,
                           resets |-> monitor.resets])]
       /\ loop' = [loop EXCEPT !.pending = next_pending(@, FALSE),
                               !.visited = Append(@, frequency),
                               !.monitoring_successful = TRUE,
                               !.all_failed = @ /\ capture_failed(cyc)]
  ELSE IF retry_left(monitor.attempt)
  THEN /\ config' = config
       /\ sdr_center_freq' = cyc.sdr
       /\ \E reset_ok \in BOOLEAN :
            monitor' = [monitor EXCEPT
              !.freq = frequency,
              !.attempt = @ + 1,
              !.resets = Append(@, reset_ok),
              !.dispatch_failed = @ \/ notify_raised(cyc)]
       /\ loop' = loop
  ELSE /\ config' = [config EXCEPT !.frequencies = remove(@, frequency)]
       /\ \E safe_ok \in BOOLEAN :
            sdr_center_freq' = IF safe_ok THEN SAFE_FREQUENCY ELSE cyc.sdr
       /\ monitor' = [NoMonitor EXCEPT
            !.freq = frequency,
            !.call = Some([freq |-> frequency, attempts |-> monitor.attempt + 1,
                           returned |-> "False", removed |-> TRUE,
                           resets |-> monitor.resets])]
       /\ loop' = [loop EXCEPT !.pending = next_pending(@, TRUE),
                               !.visited = Append(@, frequency),
                               !.monitoring_successful = TRUE]

\* one pass of the retry loop of monitor_frequency (lines 1496-1559) for the
\* frequency the main loop has reached: tune, scan, and what follows
MonitorAttempt(cs, ds) ==
  /\ loop.status = "scanning"
  /\ loop.pending # <<>>
  /\ IF monitor.attempt = 0 THEN \E dt \in ds : Tick(dt) ELSE Tick(RETRY_SLEEP)
  /\ LET frequency == Head(loop.pending)
     IN \E tune_ok \in BOOLEAN :
          /\ IF tune_ok
             THEN scan_for_intrusions(frequency, now', frequency, cs)
             ELSE Commit(baseline, sdr_center_freq, last_alert_time,
                         alert_count, early_detection, prev_attempt,
                         [NoCycle EXCEPT !.freq = frequency, !.at = now',
                                         !.step = "tune_failed",
                                         !.result = "Raised"])
          /\ AfterAttempt(frequency, cycle')

\* ------------------------------------------------------------------- run
handle_user_input_deaf(stdscr, key) == IF ~stdscr THEN "None" ELSE "True"

\* handle_user_input: None without curses, False on 'q', True otherwise
\* (after the baseline reset on 'r')
handle_user_input(stdscr, key) ==
  IF ~stdscr THEN "None" ELSE IF key = "q" THEN "False" ELSE "True"

\* list(self.config['frequencies']) of line 1696
configured_list(cfg) == Frequencies

scan_list(cfg) == cfg.frequencies

\* the 'r' key (lines 1574-1579): the store is dropped and create_baseline
\* runs; whatever it raises is swallowed by the bare except of line 1580.
\* Its pync.notify (line 720) comes after the store is assigned
ResetBaseline(t) ==
  \E runs \in [MonitoredFrequencies -> Runs] :
    LET r == create_baseline(None, config.frequencies, runs,
                             sdr_center_freq, t)
    IN /\ baseline' = r.baseline
       /\ sdr_center_freq' = r.sdr

\* the head of one iteration of the main loop (lines 1672-1696)
BeginCycle(keys) ==
  /\ loop.status = "idle"
  /\ \E key \in keys :
       /\ loop' =
            IF handle_user_input(loop.stdscr, key) # "True"
            THEN [loop EXCEPT !.key = IF loop.stdscr THEN key ELSE @,
                              !.status = "stopped",
                              !.stop = Some("User requested exit...")]
            ELSE IF scan_list(config) = <<>>
            THEN [loop EXCEPT !.key = key, !.status = "stopped",
                              !.stop = Some("No valid frequencies left to monitor! Exiting...")]
            ELSE [loop EXCEPT !.key = key, !.status = "scanning",
                              !.pending = scan_list(config),
                              !.snapshot = scan_list(config),
                              !.visited = <<>>,
                              !.monitoring_successful = FALSE,
                              !.all_failed = TRUE]
       /\ IF loop.stdscr /\ key = "r"
          THEN ResetBaseline(now)
          ELSE UNCHANGED <<baseline, sdr_center_freq>>
  /\ UNCHANGED <<config, now, last_alert_time, alert_count, early_detection,
                 last_anomaly, prev_attempt, cycle, monitor>>

\* the tail of one iteration (lines 1719-1731); failed_cycles counts the
\* cycles in a row in which every frequency failed to be monitored
EndCycle ==
  /\ loop.status = "scanning"
  /\ loop.pending = <<>>
  /\ LET error_count == IF loop.monitoring_successful THEN 0
                        ELSE loop.error_count + 1
         failed_cycles == IF ~loop.all_failed THEN 0
                          ELSE IF loop.failed_cycles < max_consecutive_errors
                          THEN loop.failed_cycles + 1
                          ELSE loop.failed_cycles
     IN /\ loop' =
             IF error_count >= max_consecutive_errors
             THEN [loop EXCEPT !.error_count = error_count,
                               !.failed_cycles = failed_cycles,
                               !.status = "stopped",
                               !.stop = Some("Too many consecutive errors. Stopping monitoring.")]
             ELSE [loop EXCEPT !.error_count = error_count,
                               !.failed_cycles = failed_cycles,
                               !.status = "idle"]
        /\ now' = IF loop.monitoring_successful THEN now ELSE now + ERROR_SLEEP
  /\ UNCHANGED <<config, baseline, sdr_center_freq, last_alert_time,
                 alert_count, early_detection, last_anomaly, prev_attempt,
                 cycle, monitor>>

\* ------------------------------------------------------------------ Init
Calibration(wf, wp, cf, cp) ==
  [wireless_freq |-> wf, wireless_power |-> wp,
   cellular_freq |-> cf, cellular_power |-> cp]

ProximityConfig(en, needed, values) ==
  [enabled |-> en, calibration_needed |-> needed,
   calibration_values |-> values, frequencies |-> Frequencies]

\* config.json as the detector can find it: proximity detection disabled,
\* enabled but not calibrated, enabled without calibration values, and
\* calibrated with the two classes on different or on the same frequency
Configs ==
  { ProximityConfig(FALSE, FALSE, Some(Calibration(433, -40, 850, -44))),
    ProximityConfig(TRUE, TRUE, Some(Calibration(433, -40, 850, -44))),
    ProximityConfig(TRUE, FALSE, None),
    ProximityConfig(TRUE, FALSE, Some(Calibration(433, -40, 850, -44))),
    ProximityConfig(TRUE, FALSE, Some(Calibration(850, -40, 850, -44))),
    ProximityConfig(TRUE, FALSE, Some(Calibration(850, -44, 850, -40))) }

Entry(center, psd_mean) ==
  [frequencies |-> BinFrequencies(center, Len(psd_mean)), psd_mean |-> psd_mean]

\* a spectrum of another FFT size (one more bin)
Wider == [b \in 1..(NumBins + 1) |-> NoiseFloor]

\* baseline.pkl as __init__ can load it (lines 97-101)
Baselines ==
  { None,
    Some([timestamp |-> 0,
          data |-> (433 :> Entry(433, Flat)) @@ (850 :> Entry(850, Flat))]),
    Some([timestamp |-> 0,
          data |-> (433 :> Entry(433, Peak(1, -44))) @@ (850 :> Entry(850, Flat))]),
    Some([timestamp |-> 0, data |-> (433 :> Entry(433, Flat))]),
    Some([timestamp |-> 0,
          data |-> (433 :> Entry(433, Wider)) @@ (850 :> Entry(850, Flat))]) }

\* the detector after __init__
StartEngine ==
  /\ sdr_center_freq = SAFE_FREQUENCY
  /\ now = 0
  /\ last_alert_time = 0 - INITIAL_ALERT_AGE
  /\ alert_count = 0
  /\ early_detection = None
  /\ last_anomaly = None
  /\ prev_attempt = [k \in AlertKinds |-> None]
  /\ cycle = NoCycle
  /\ monitor = NoMonitor

\* ... run with the curses dashboard (run_with_dashboard)
Start == StartEngine /\ loop = NoLoop

\* the detection engine, over every configuration and stored baseline
Init ==
  /\ config \in Configs
  /\ baseline \in Baselines \ {None}
  /\ Start

Next == ScanNewFrequency(ScanPaces) \/ ScanDetect(Captures, ScanPaces)

Spec == Init /\ [][Next]_vars

\* the alert throttle, over the times of the scans: both classes calibrated,
\* every frequency with a baseline, quiet / breach / anomaly captures
ThrottleCaptures == {Flat, Peak(1, -38), Peak(NumBins, -44)}

InitThrottle ==
  /\ config = ProximityConfig(TRUE, FALSE, Some(Calibration(433, -40, 850, -44)))
  /\ baseline = Some([timestamp |-> 0,
                      data |-> (433 :> Entry(433, Flat)) @@ (850 :> Entry(850, Flat))])
  /\ Start

NextThrottle == ScanDetect(ThrottleCaptures, Deltas)

SpecThrottle == InitThrottle /\ [][NextThrottle]_vars

\* a detector started without baseline.pkl: the first scan creates the store
InitStartup ==
  /\ config = ProximityConfig(TRUE, FALSE, Some(Calibration(433, -40, 850, -44)))
  /\ baseline = None
  /\ Start

NextStartup == ScanWithoutBaseline(ThrottleCaptures, ScanPaces)

SpecStartup == InitStartup /\ [][NextStartup]_vars

\* the main loop with its retries, in dashboard mode and in console mode
\* (main, lines 1780-1803): both classes calibrated, every frequency with a
\* baseline, the one of 433 MHz stored with another FFT size
InitRun ==
  /\ config = ProximityConfig(TRUE, FALSE, Some(Calibration(433, -40, 850, -44)))
  /\ baseline = Some([timestamp |-> 0,
                      data |-> (433 :> Entry(433, Wider)) @@ (850 :> Entry(850, Flat))])
  /\ StartEngine
  /\ loop \in {[NoLoop EXCEPT !.stdscr = b] : b \in BOOLEAN}

NextRun ==
  \/ BeginCycle(Keys)
  \/ MonitorAttempt(ThrottleCaptures, LoopPaces)
  \/ EndCycle

SpecRun == InitRun /\ [][NextRun]_vars

\* the main loop with the 'r' key: the baseline can be reset between cycles
ResetKeys == {"none", "r"}
ResetPaces == {180}
ResetCaptures == {Flat, Peak(1, -38)}

InitReset ==
  /\ config = ProximityConfig(TRUE, FALSE, Some(Calibration(433, -40, 850, -44)))
  /\ baseline = Some([timestamp |-> 0,
                      data |-> (433 :> Entry(433, Flat)) @@ (850 :> Entry(850, Flat))])
  /\ Start

NextReset ==
  \/ BeginCycle(ResetKeys)
  \/ MonitorAttempt(ResetCaptures, ResetPaces)
  \/ EndCycle

SpecReset == InitReset /\ [][NextReset]_vars

\* =====================================================================
\* Claims
\* =====================================================================
Classes == {"wireless", "cellular"}

ReferenceFrequency(c) ==
  IF c = "wireless" THEN config.calibration_values[1].wireless_freq
                    ELSE config.calibration_values[1].cellular_freq
ReferencePower(c) ==
  IF c = "wireless" THEN config.calibration_values[1].wireless_power
                    ELSE config.calibration_values[1].cellular_power
AlertDistance(c) ==
  IF c = "wireless" THEN bluetooth_distance_threshold
                    ELSE cellular_distance_threshold
Other(c) == IF c = "wireless" THEN "cellular" ELSE "wireless"

\* the latest scan checked proximity with detection enabled and calibrated
CheckedCalibrated ==
  /\ cycle.checked
  /\ config.enabled
  /\ ~config.calibration_needed
  /\ config.calibration_values # None

\* ... at the reference frequency of class c
DrivenFor(c) == CheckedCalibrated /\ cycle.freq = ReferenceFrequency(c)

MaxPower == CHOOSE p \in {cycle.psd[i] : i \in 1..Len(cycle.psd)} :
              \A i \in 1..Len(cycle.psd) : cycle.psd[i] <= p

EarlyFor(c) == \E k \in 1..Len(cycle.early) : cycle.early[k].type = c
BreachFor(c) == cycle.breach # None /\ cycle.breach[1].type = c

\* C1: the spectral scoring step reports bin i as an anomaly iff
\* abs(sample[i] - baseline_mean[i]) > threshold (equality is not reported),
\* in bin order, each with the signed difference sample[i] - baseline_mean[i].
C1_AnomalyIffAboveThreshold ==
  cycle.scored =>
    LET mean == baseline[1].data[cycle.freq].psd_mean
        sample == cycle.psd
        bins == BinFrequencies(cycle.tuned, Len(sample))
        hit(i) == \/ sample[i] - mean[i] > threshold
                  \/ mean[i] - sample[i] > threshold
        hits == {i \in 1..Len(sample) : hit(i)}
    IN Len(mean) = Len(sample) =>
         /\ Len(cycle.anomalies) = Cardinality(hits)
         /\ \A i \in hits :
              \E k \in 1..Len(cycle.anomalies) :
                /\ cycle.anomalies[k].frequency = bins[i]
                /\ cycle.anomalies[k].difference = sample[i] - mean[i]
                /\ cycle.anomalies[k].current_power = sample[i]
                /\ cycle.anomalies[k].baseline_power = mean[i]
         /\ \A k \in 1..Len(cycle.anomalies) :
              \E i \in hits : cycle.anomalies[k].frequency = bins[i]

\* a flat baseline and a sample that rises by threshold + 1 in the middle
\* bin only: one anomaly, at that bin, with difference threshold + 1
C1_Witness ==
  /\ cycle.scored
  /\ cycle.freq = 433
  /\ baseline[1].data[433].psd_mean = Flat
  /\ cycle.psd = Peak(2, NoiseFloor + threshold + 1)
  /\ Len(cycle.anomalies) = 1
  /\ cycle.anomalies[1].frequency = BinFrequencies(433, NumBins)[2]
  /\ cycle.anomalies[1].difference = threshold + 1

\* C2: at a class's reference frequency, a sample whose maximum power is
\* above the class's reference power yields a confirmed breach for that
\* class, at its alert distance and with the reference power as reference.
C2_BreachAboveReference ==
  \A c \in Classes :
    (DrivenFor(c) /\ MaxPower > ReferencePower(c)) =>
      /\ BreachFor(c)
      /\ cycle.breach[1].distance = AlertDistance(c)
      /\ cycle.breach[1].reference = ReferencePower(c)
      /\ cycle.breach[1].alert_level = "alert"

\* C3: at a class's reference frequency, a maximum power in
\* (reference - 6, reference] yields an early detection for that class, at
\* twice its alert distance and with reference - 6 as reference, and no
\* confirmed breach for it.
C3_EarlyBetweenReferences ==
  \A c \in Classes :
    (DrivenFor(c) /\ MaxPower > ReferencePower(c) - 6
                  /\ MaxPower <= ReferencePower(c)) =>
      /\ \E k \in 1..Len(cycle.early) :
           /\ cycle.early[k].type = c
           /\ cycle.early[k].distance = 2 * AlertDistance(c)
           /\ cycle.early[k].reference = ReferencePower(c) - 6
      /\ ~BreachFor(c)

\* C4 (as claimed): a maximum power at or below reference - 6 for a class
\* makes check_proximity_breach return no breach and record no early
\* detection at all.
C4_NothingAtOrBelowExtended ==
  \A c \in Classes :
    (DrivenFor(c) /\ MaxPower <= ReferencePower(c) - 6) =>
      /\ cycle.breach = None
      /\ cycle.early = <<>>

\* C4 (amended): a maximum power at or below reference - 6 (equality
\* included) yields neither an early detection nor a confirmed breach for
\* that class; when the other class is not calibrated to the scanned
\* frequency, check_proximity_breach returns no breach and the recorded
\* early-detection state stays as it was.
C4_NothingForClassAtOrBelowExtended ==
  [][\A c \in Classes :
       (DrivenFor(c)' /\ MaxPower' <= ReferencePower(c) - 6) =>
         /\ ~EarlyFor(c)'
         /\ ~BreachFor(c)'
         /\ ReferenceFrequency(Other(c)) # cycle'.freq =>
              /\ cycle'.breach = None
              /\ cycle'.early = <<>>
              /\ early_detection' = early_detection
              /\ ~cycle'.send_proximity_alert_called]_vars

\* an earlier early detection is on record and the latest scan, at the
\* wireless reference frequency alone, peaked exactly at reference - 6
C4_Witness ==
  /\ DrivenFor("wireless")
  /\ ReferenceFrequency("cellular") # cycle.freq
  /\ MaxPower = ReferencePower("wireless") - 6
  /\ early_detection # None
  /\ cycle.early = <<>>
  /\ cycle.breach = None

ProximityGateClosed ==
  \/ ~config.enabled
  \/ config.calibration_needed
  \/ config.calibration_values = None

\* C5: with proximity detection disabled, or calibration_needed set, or no
\* calibration values, the proximity check of a scan returns no breach,
\* records no early detection, writes no proximity row, calls no proximity
\* alert, and the throttle state changes only when a spectral alert is sent.
C5_UncalibratedIsNoOp ==
  [][(cycle'.checked /\ ProximityGateClosed) =>
       /\ cycle'.breach = None
       /\ cycle'.early = <<>>
       /\ early_detection' = early_detection
       /\ cycle'.proximity_rows = <<>>
       /\ ~cycle'.send_proximity_alert_called
       /\ cycle'.dispatched # Some("proximity")
       /\ cycle'.dashboard_alert # Some("proximity")
       /\ (last_alert_time' # last_alert_time \/ alert_count' # alert_count)
            => cycle'.dispatched = Some("spectral")]_vars

\* calibration values are stored but calibration_needed is set, and the scan
\* at the stored wireless frequency peaked above the stored reference power
C5_Witness ==
  /\ cycle.checked
  /\ config.enabled /\ config.calibration_needed
  /\ config.calibration_values # None
  /\ cycle.freq = config.calibration_values[1].wireless_freq
  /\ MaxPower > config.calibration_values[1].wireless_power
  /\ cycle.breach = None

\* the proximity result of the latest scan is an early detection only
EarlyOnly(cyc) ==
  /\ cyc.early # <<>>
  /\ cyc.breach = None \/ cyc.breach[1].alert_level # "alert"

\* C6: a scan whose proximity result is only an early detection stores it
\* in the dashboard state, calls no proximity alert, writes no proximity
\* row, and changes the throttle state only if a spectral alert is sent.
C6_EarlyDetectionIsAdvisory ==
  [][EarlyOnly(cycle') =>
       /\ early_detection' = Some(cycle'.early[Len(cycle'.early)])
       /\ ~cycle'.send_proximity_alert_called
       /\ cycle'.proximity_rows = <<>>
       /\ cycle'.dispatched # Some("proximity")
       /\ cycle'.dashboard_alert # Some("proximity")
       /\ (last_alert_time' # last_alert_time \/ alert_count' # alert_count)
            => cycle'.dispatched = Some("spectral")]_vars

\* an early-only scan that sent nothing at all
C6_Witness ==
  /\ EarlyOnly(cycle)
  /\ early_detection = Some(cycle.early[Len(cycle.early)])
  /\ cycle.dispatched = None
  /\ cycle.result = "False"

\* C7: the proximity check comes before spectral scoring, and a confirmed
\* breach skips the scoring: no anomaly, no anomaly row, no send_alert.
C7_BreachSkipsScoring ==
  /\ cycle.scored => cycle.checked /\ cycle.breach = None
  /\ cycle.breach # None =>
       /\ ~cycle.scored
       /\ cycle.anomalies = <<>>
       /\ cycle.anomaly_rows = <<>>
       /\ ~cycle.send_alert_called
       /\ cycle.dispatched # Some("spectral")
       /\ cycle.dashboard_alert # Some("spectrum_anomaly")

\* a confirmed breach on a sample that is also more than the threshold
\* above the stored baseline
C7_Witness ==
  /\ cycle.breach # None
  /\ Len(baseline[1].data[cycle.freq].psd_mean) = Len(cycle.psd)
  /\ \E i \in 1..Len(cycle.psd) :
       cycle.psd[i] - baseline[1].data[cycle.freq].psd_mean[i] > threshold
  /\ ~cycle.scored

\* one alert attempt of kind k with minimum interval iv
AttemptRule(k, iv) ==
  LET emitted == cycle'.dispatched = Some(k)
  IN /\ emitted <=> (now' - last_alert_time >= iv)
     /\ emitted => last_alert_time' = now' /\ alert_count' = alert_count + 1
     /\ ~emitted => /\ last_alert_time' = last_alert_time
                    /\ alert_count' = alert_count
                    /\ cycle'.dispatched = None

\* C8: an alert attempt emits, setting last_alert_time to its time and
\* adding one to alert_count, iff at least min_interval seconds have passed
\* since last_alert_time: 300 for send_alert, 60 for send_proximity_alert;
\* otherwise it dispatches nothing and leaves both unchanged.
C8_EmitsIffIntervalElapsed ==
  [][/\ cycle'.send_alert_called => AttemptRule("spectral", 300)
     /\ cycle'.send_proximity_alert_called => AttemptRule("proximity", 60)]_vars

\* an attempt was suppressed after an earlier one had emitted
C8_Witness ==
  /\ cycle.send_alert_called \/ cycle.send_proximity_alert_called
  /\ cycle.dispatched = None
  /\ alert_count >= 1
  /\ now - last_alert_time > 0

\* the throttle state an alert function reads and writes: send_alert
\* (lines 1302-1306) and send_proximity_alert (lines 1380-1384) both use
\* self.last_alert_time and self.alert_count
ThrottleState(k) ==
  [last_alert_at |-> last_alert_time, alert_count |-> alert_count]

\* C9: emitting an alert of one category leaves the other category's
\* last_alert_at and alert_count unchanged.
C9_ThrottlePerCategory ==
  [][\A k \in AlertKinds :
       cycle'.dispatched = Some(k) =>
         \A other \in AlertKinds \ {k} :
           ThrottleState(other)' = ThrottleState(other)]_vars

MinInterval(k) == IF k = "spectral" THEN 300 ELSE 60
Attempted(k) ==
  IF k = "spectral" THEN cycle'.send_alert_called
                    ELSE cycle'.send_proximity_alert_called

\* C10: of two consecutive attempts of one category, the first of which
\* emitted, the second does not emit when they are less than min_interval
\* apart and does emit when they are more than min_interval apart,
\* whatever the other category did in between.
C10_ConsecutiveAttempts ==
  [][\A k \in AlertKinds :
       (Attempted(k) /\ prev_attempt[k] # None /\ prev_attempt[k][1].emitted) =>
         LET apart == now' - prev_attempt[k][1].at
             emitted == cycle'.dispatched = Some(k)
         IN /\ apart < MinInterval(k) => ~emitted
            /\ apart > MinInterval(k) => emitted]_vars

\* C11: a scan that finds anomalies or a confirmed breach appends the
\* corresponding log rows and returns True, whether or not the throttle
\* let the notification through.
C11_DetectionRecordedAndReported ==
  (cycle.anomalies # <<>> \/ cycle.breach # None) =>
    /\ cycle.result = "True"
    /\ cycle.breach # None =>
         cycle.proximity_rows = <<proximity_row(cycle.at, cycle.breach[1])>>
    /\ cycle.anomalies # <<>> =>
         cycle.anomaly_rows =
           [k \in 1..Len(cycle.anomalies) |->
              anomaly_row(cycle.at, cycle.freq, cycle.anomalies[k])]

\* a step of the retry loop: one tune-and-scan attempt was made
AttemptStep == loop.status = "scanning" /\ now' # now

\* the monitor_frequency call ended with this step, returning r after n
\* attempts
CallEnded(r, n) ==
  /\ monitor'.attempt = 0
  /\ monitor'.call # None
  /\ monitor'.call[1].freq = Head(loop.pending)
  /\ monitor'.call[1].returned = r
  /\ monitor'.call[1].attempts = n
  /\ loop'.pending = Tail(loop.pending)

\* C12: one monitor_frequency call makes at most 3 tune-and-scan attempts;
\* the first attempt that completes ends the call with the scan's result,
\* a failed attempt is followed by another one only while fewer than 3 were
\* made, and the third failure ends the call with False.
C12_BoundedAttempts ==
  [][AttemptStep =>
       /\ monitor.attempt + 1 <= 3
       /\ cycle'.freq = Head(loop.pending)
       /\ IF cycle'.result \in {"True", "False"}
          THEN CallEnded(cycle'.result, monitor.attempt + 1)
          ELSE IF monitor.attempt + 1 < 3
          THEN /\ monitor'.attempt = monitor.attempt + 1
               /\ loop'.pending = loop.pending
          ELSE CallEnded("False", 3)]_vars

\* a call that failed twice and returned the detection of its third attempt
C12_Witness ==
  /\ monitor.call # None
  /\ monitor.call[1].attempts = 3
  /\ monitor.call[1].returned = "True"
  /\ monitor.call[1].freq \in MonitoredFrequencies

\* C13: a frequency is removed from the monitored set only when a device
\* re-initialization of that call failed as well.
C13_DroppedOnlyIfReinitFails ==
  (monitor.call # None /\ monitor.call[1].removed) =>
    \E i \in 1..Len(monitor.call[1].resets) : ~monitor.call[1].resets[i]

AllFrequencies == {Frequencies[i] : i \in 1..Len(Frequencies)}
Pending(l) == {l.pending[i] : i \in 1..Len(l.pending)}

\* C14: a frequency leaves the monitored set only with the third failed
\* attempt of its own monitor_frequency call, and from then on it is never
\* in the set again, never in the list the main loop walks, and never tuned
\* or scanned.
C14_DroppedIsAbsorbing ==
  [][\A f \in AllFrequencies :
       /\ (f \in MonitoredFrequencies /\ f \notin MonitoredFrequencies') =>
            /\ AttemptStep
            /\ Head(loop.pending) = f
            /\ monitor.attempt = 2
            /\ cycle'.result = "Raised"
       /\ f \notin MonitoredFrequencies =>
            /\ f \notin MonitoredFrequencies'
            /\ f \notin Pending(loop')
            /\ AttemptStep => cycle'.freq # f]_vars

\* one frequency was dropped, and a later cycle scanned the other one
C14_Witness ==
  /\ \E f \in AllFrequencies : f \notin MonitoredFrequencies
  /\ monitor.call # None
  /\ monitor.call[1].freq \in MonitoredFrequencies
  /\ ~monitor.call[1].removed
  /\ cycle.freq = monitor.call[1].freq
  /\ cycle.checked

\* C15: a cycle in which every frequency failed to be monitored adds one
\* to the consecutive-failure counter, and after five such cycles in a row
\* the main loop has stopped.
C15_FullCycleFailureCounts ==
  [][(loop.status = "scanning" /\ loop'.status # "scanning") =>
       /\ loop.all_failed => loop'.error_count = loop.error_count + 1
       /\ loop'.failed_cycles >= 5 => loop'.status = "stopped"]_vars

\* C16: an attempt in which a notification transport failed does not stop
\* the main loop and does not remove the frequency, and the call does not
\* dispatch again after the failure.
C16_DispatchFailureIsIgnored ==
  [][AttemptStep =>
       /\ notify_raised(cycle') =>
            /\ loop'.status # "stopped"
            /\ config'.frequencies = config.frequencies
       /\ monitor.dispatch_failed => cycle'.dispatched = None]_vars

\* a scan of a frequency that the existing store has no entry for
NewFrequencyStep ==
  /\ baseline # None
  /\ now' # now
  /\ ~has_baseline(baseline, cycle'.freq)

\* C17: a scan of a frequency without a baseline entry returns False
\* without a proximity check, a spectral comparison or an alert, and leaves
\* the throttle alone; the entry it creates makes later scans of the
\* frequency detect.
C17_NewFrequencySkipsDetection ==
  [][NewFrequencyStep =>
       /\ cycle'.step \in {"baseline_created", "baseline_failed",
                           "baseline_error"}
       /\ cycle'.result = "False"
       /\ ~cycle'.checked /\ ~cycle'.scored
       /\ cycle'.breach = None /\ cycle'.early = <<>>
       /\ cycle'.anomalies = <<>>
       /\ cycle'.anomaly_rows = <<>> /\ cycle'.proximity_rows = <<>>
       /\ ~cycle'.send_alert_called /\ ~cycle'.send_proximity_alert_called
       /\ cycle'.dispatched = None
       /\ last_alert_time' = last_alert_time /\ alert_count' = alert_count
       /\ early_detection' = early_detection
       /\ cycle'.step = "baseline_created" =>
            /\ baseline' # None
            /\ has_baseline(baseline', cycle'.freq)]_vars

\* the baseline of 850 MHz was created by the latest scan, which detected
\* nothing
C17_Witness ==
  /\ cycle.step = "baseline_created"
  /\ cycle.freq = 850
  /\ cycle.result = "False"
  /\ ~cycle.checked
  /\ has_baseline(baseline, 850)

\* C18: every entry of the baseline store has as many mean powers as bin
\* frequencies.
C18_EntryLengthsAgree ==
  baseline # None =>
    \A f \in DOMAIN baseline[1].data :
      Len(baseline[1].data[f].psd_mean) = Len(baseline[1].data[f].frequencies)

\* C19: create_baseline_for_frequency(f) on an existing store keeps the
\* store's timestamp and the entry of every other frequency, adds no entry
\* but f's, and leaves the whole store as it was when it fails on a tune
\* error or for want of a valid capture.
C19_OtherEntriesKept ==
  [][NewFrequencyStep =>
       /\ baseline' # None
       /\ baseline'[1].timestamp = baseline[1].timestamp
       /\ \A g \in DOMAIN baseline[1].data :
            /\ g \in DOMAIN baseline'[1].data
            /\ baseline'[1].data[g] = baseline[1].data[g]
       /\ DOMAIN baseline'[1].data \subseteq
            DOMAIN baseline[1].data \cup {cycle'.freq}
       /\ cycle'.step = "baseline_failed" => baseline' = baseline]_vars

\* 850 MHz was added to a store created earlier that held 433 MHz only
C19_Witness ==
  /\ cycle.step = "baseline_created"
  /\ cycle.freq = 850
  /\ now > baseline[1].timestamp
  /\ DOMAIN baseline[1].data = {433, 850}
  /\ baseline[1].data[433] = Entry(433, Flat)

\* C20: a scan whose sample does not match the layout of the stored
\* baseline leaves the frequency in the monitored set and the store with a
\* baseline of the sample's layout for it.
C20_MismatchRecreatesBaseline ==
  [][(AttemptStep /\ cycle'.step = "mismatch") =>
       /\ cycle'.freq \in MonitoredFrequencies'
       /\ Len(baseline'[1].data[cycle'.freq].psd_mean) = Len(cycle'.psd)]_vars

\* C21: a stop request is read only at the head of a cycle; a cycle whose
\* head reads 'q' stops the loop without tuning or scanning anything, a
\* stopped loop does nothing more, and within a cycle each attempt is for
\* the one frequency the cycle has reached.
C21_StopCheckedOncePerCycle ==
  [][/\ loop.status # "stopped"
     /\ (loop.status = "idle" /\ loop.stdscr /\ loop'.key = "q") =>
          /\ loop'.status = "stopped"
          /\ cycle' = cycle /\ now' = now
          /\ sdr_center_freq' = sdr_center_freq
     /\ loop.status = "scanning" =>
          /\ loop'.key = loop.key
          /\ loop'.stop = None
     /\ AttemptStep =>
          /\ cycle'.freq = Head(loop.pending)
          /\ cycle'.sdr \in {cycle'.freq, sdr_center_freq}]_vars

\* 'q' was read after a cycle that had scanned, and the loop stopped
C21_Witness ==
  /\ loop.stdscr
  /\ loop.status = "stopped"
  /\ loop.key = "q"
  /\ monitor.call # None
  /\ loop.visited # <<>>

\* the identity of a detected entity, and the times the engine holds for it
Identity(a) == <<a.type, a.frequency>>
Tracked(la) ==
  IF la = None THEN {}
  ELSE {[identity |-> Identity(la[1]), first_seen |-> la[1].at,
         last_seen |-> la[1].at]}

\* C22: a detection recorded for an identity leaves the engine holding that
\* identity with last_seen at the time of the detection and first_seen at
\* the time of its first observation, and every identity held before is
\* still held.
C22_TrackerKeepsFirstSeen ==
  [][cycle'.dashboard_alert # None =>
       /\ \E e \in Tracked(last_anomaly') :
            /\ e.identity = Identity(last_anomaly'[1])
            /\ e.last_seen = now'
            /\ \A old \in Tracked(last_anomaly) :
                 old.identity = e.identity => e.first_seen = old.first_seen
       /\ \A old \in Tracked(last_anomaly) :
            \E e \in Tracked(last_anomaly') : e.identity = old.identity]_vars

\* C23: every reported anomaly carries signal_increase_pct, within
\* 0..10000, and 0 when the current power is not above the baseline power.
C23_SignalIncreaseBounded ==
  \A k \in 1..Len(cycle.anomalies) :
    LET a == cycle.anomalies[k]
    IN /\ "signal_increase_pct" \in DOMAIN a
       /\ a.signal_increase_pct \in 0..10000
       /\ a.current_power <= a.baseline_power => a.signal_increase_pct = 0

\* C24: every reported anomaly carries estimated_distance_ft, None when
\* the difference is <= 0 and within 1..100 feet otherwise.
C24_EstimatedDistanceBounded ==
  \A k \in 1..Len(cycle.anomalies) :
    LET a == cycle.anomalies[k]
    IN /\ "estimated_distance_ft" \in DOMAIN a
       /\ IF a.difference <= 0 THEN a.estimated_distance_ft = None
          ELSE /\ a.estimated_distance_ft # None
               /\ a.estimated_distance_ft[1] \in 1..100

\* C25: on a scan at a class's reference frequency, with detection
\* calibrated, that class is evaluated, whatever the other class yields.
C25_EachClassEvaluated ==
  \A c \in Classes : DrivenFor(c) => c \in cycle.evaluated

\* C26: the spectrum a scan of f checks and compares was captured with the
\* hardware tuned to f.
C26_CapturedAtScannedFrequency ==
  cycle.checked => cycle.tuned = cycle.freq

\* C27: the main loop stops only on the user's 'q', on an empty monitored
\* set, or on five consecutive failed cycles; otherwise the head of a cycle
\* goes on to scan the monitored frequencies.
C27_LoopExitReasons ==
  [][LET user_stop == loop.stdscr /\ loop'.key = "q"
         empty == config.frequencies = <<>>
         errors == loop'.error_count >= 5
     IN /\ loop'.status = "stopped" => (user_stop \/ empty \/ errors)
        /\ (loop.status = "idle" /\ ~user_stop /\ ~empty) =>
             /\ loop'.status = "scanning"
             /\ loop'.pending = config.frequencies]_vars

\* C28: an alert that passes the throttle sets last_alert_time and adds one
\* to alert_count whether or not its notification then fails, and after a
\* failed notification the further attempts of the same monitor_frequency
\* call find the throttle closed: they dispatch nothing and leave it alone.
C28_ThrottleAdvancedBeforeDispatch ==
  [][AttemptStep =>
       /\ cycle'.dispatched # None =>
            /\ last_alert_time' = now'
            /\ alert_count' = alert_count + 1
       /\ monitor.dispatch_failed =>
            /\ cycle'.dispatched = None
            /\ last_alert_time' = last_alert_time
            /\ alert_count' = alert_count]_vars

\* the second attempt of a call detected again, two seconds after the
\* first attempt's notification had failed, and was throttled
C28_Witness ==
  /\ monitor.call # None
  /\ monitor.call[1].attempts = 2
  /\ monitor.call[1].returned = "True"
  /\ cycle.send_alert_called \/ cycle.send_proximity_alert_called
  /\ cycle.dispatched = None
  /\ last_alert_time = now - RETRY_SLEEP
  /\ alert_count = 1

\* no class calibrated to the scanned frequency is above its reference
NoClassAboveReference ==
  \/ ~CheckedCalibrated
  \/ \A c \in Classes :
       cycle.freq = ReferenceFrequency(c) => MaxPower <= ReferencePower(c)

\* C29: a scan whose sample is above no reference power (an early
\* detection, or nothing) returns no breach and goes on to the spectral
\* comparison of the same sample; anomalies found there are logged and
\* send_alert is called in the same scan.
C29_OnlyBreachShortCircuits ==
  (cycle.checked /\ NoClassAboveReference) =>
    /\ cycle.breach = None
    /\ cycle.scored \/ cycle.step = "mismatch"
    /\ cycle.scored =>
         /\ cycle.anomalies =
              find_anomalies(BinFrequencies(cycle.tuned, Len(cycle.psd)),
                             cycle.psd,
                             baseline[1].data[cycle.freq].psd_mean, 1)
         /\ cycle.anomalies # <<>> =>
              /\ cycle.send_alert_called
              /\ cycle.anomaly_rows # <<>>

\* an early detection and a spectral alert in one scan
C29_Witness ==
  /\ cycle.checked
  /\ cycle.early # <<>>
  /\ cycle.breach = None
  /\ cycle.scored
  /\ cycle.anomalies # <<>>
  /\ cycle.dispatched = Some("spectral")

\* C30: within a cycle, the frequencies whose monitor_frequency call has
\* ended followed by those still to come are the monitored list as it was
\* at the head of the cycle, each once and in that order.
C30_CycleWalksSnapshot ==
  loop.status = "scanning" =>
    /\ loop.visited \o loop.pending = loop.snapshot
    /\ \A i, j \in 1..Len(loop.snapshot) :
         loop.snapshot[i] = loop.snapshot[j] => i = j
    /\ \A f \in MonitoredFrequencies : f \in Pending(loop) \/
         \E i \in 1..Len(loop.visited) : loop.visited[i] = f

\* the first frequency of the cycle was removed, and the second one was
\* monitored all the same
C30_Witness ==
  /\ loop.status = "scanning"
  /\ loop.snapshot = <<433, 850>>
  /\ loop.visited = <<433, 850>>
  /\ loop.pending = <<>>
  /\ MonitoredFrequencies = {850}
  /\ monitor.call # None
  /\ monitor.call[1].freq = 850
  /\ ~monitor.call[1].removed

====
